---- MODULE Spec2Model ----
(***************************************************************************)
(* Model of the thread-safe hashmap of src/ts_hashmap.c: a fixed array of  *)
(* bucket chains, one mutex per bucket, and one spinlock for the counters  *)
(* numOps and size.  Each thread runs get, put and del calls; one action   *)
(* of the model is one lock operation or one lock-protected statement      *)
(* group of the C code.                                                    *)
(***************************************************************************)
EXTENDS Integers, Sequences, FiniteSets, TLC

\* ---------------------------------------------------------------- bounds
\* Calls started in one run of the concurrent workload.
MaxCalls == 3

\* Calls started in one run of the workload checked for progress.
MaxLiveCalls == 2

\* Calls started in one run of the single-threaded workload.
MaxSeqCalls == 4

\* The capacities initmap is called with: 1..MaxCapacity.
MaxCapacity == 2

\* ------------------------------------------------------- program constants
INT_MAX == 2147483647

NULL == 0

\* ------------------------------------------------------------- input sets
Threads == {1, 2}

\* Keys of the concurrent workloads: one negative key; the two share bucket 0
\* at capacity 1 and lie in different buckets at capacity 2.
Keys == {-1, 2}

\* Keys of the single-threaded workload: 1, 3 and -1 share bucket 1 at capacity 2.
SeqKeys == {-1, 1, 3}

AllKeys == Keys \cup SeqKeys

Values == {100, INT_MAX}

\* The allocator's pool: one node more than there are keys, so that malloc
\* never fails while chains hold at most one entry per key.
Addrs == 1..(Cardinality(AllKeys) + 1)

\* A workload: how many calls are made, by which threads, on which keys.
ConcWorkload == [limit |-> MaxCalls, threads |-> Threads, keys |-> Keys]

LiveWorkload == [limit |-> MaxLiveCalls, threads |-> Threads, keys |-> Keys]

SeqWorkload == [limit |-> MaxSeqCalls, threads |-> {1}, keys |-> SeqKeys]

NoThread == 0

VARIABLES
  capacity,    \* map->capacity
  table,       \* map->table: bucket index -> head pointer
  heap,        \* ts_entry_t nodes: address -> [key, value, next, alloc]
  entryLocks,  \* map->entryLocks: bucket index -> holder (NoThread = free)
  propsLock,   \* map->propsLock: holder (NoThread = free)
  numOps,      \* map->numOps
  size,        \* map->size
  pc,          \* per thread: position in the running call ("idle" = none)
  call,        \* per thread: the current (or last) call [op, key, value]
  entry,       \* per thread: local entry
  prevEntry,   \* per thread: local prevEntry (del)
  ret,         \* per thread: value returned by the last call (or the local
               \* value / oldValue about to be returned)
  env,         \* the workload of this run (never changes)
  nCalls,      \* history: number of calls started
  puts,        \* history: key -> values of the put calls started, in order
  dels,        \* history: key -> number of del calls started
  seqmap,      \* history: the sequential map, updated at bucket-lock acquisition
  expect,      \* history: per thread, what the sequential map returns for the call
  prev,        \* history: per thread, the call before the current/last one
  lastWriter,  \* history: key -> thread whose put/del last took effect on it
  fresh,       \* history: per thread, whether at its bucket-lock acquisition
               \* the last put/del to take effect on its key was its own
  lastOp,      \* history: key -> the kind of call, "put" or "del", that last
               \* took effect on it ("none" before the first)
  nIns,        \* history: number of entries linked into a chain so far
  nRetMax,     \* history: number of put calls that have returned INT_MAX
  fm,          \* freeMap: its position, loop index i, local entry, and the
               \* entries that were allocated when it was called
  log          \* history: what freeMap has released or destroyed, in order

mapVars == <<capacity, table, heap, entryLocks, propsLock, numOps, size>>

locVars == <<pc, call, entry, prevEntry, ret>>

histVars == <<env, nCalls, puts, dels, seqmap, expect, prev, lastWriter, fresh,
              lastOp, nIns, nRetMax>>

\* The history variables other than the two counters nIns and nRetMax.
histRest == <<env, nCalls, puts, dels, seqmap, expect, prev, lastWriter, fresh, lastOp>>

tearVars == <<fm, log>>

vars == <<mapVars, locVars, histVars, tearVars>>

\* ------------------------------------------------------------ helpers

FreeNode == [key |-> 0, value |-> 0, next |-> NULL, alloc |-> FALSE]

\* Mutant: the key is not converted to unsigned; C's % of a negative int is
\* negative or zero.
IndexSigned(k, c) ==
  IF k >= 0 THEN k % c ELSE 0 - ((0 - k) % c)

\* unsigned(key) % capacity for a 32-bit int key.  (unsigned)key is key for
\* key >= 0 and 2^32 + key for key < 0; 2^32 mod c is computed as
\* (2^16 mod c)^2 mod c, which keeps every intermediate value below 2^31.
Index(k, c) ==
  IF k >= 0 THEN k % c
  ELSE (((65536 % c) * (65536 % c)) + (k % c)) % c

\* malloc: the lowest free address of the pool.
Malloc == CHOOSE a \in Addrs : ~heap[a].alloc /\ \A b \in Addrs : ~heap[b].alloc => a <= b

NoCall == [op |-> "none", key |-> 0, value |-> 0]

\* freeMap has not been called.
NoTeardown == [pc |-> "none", i |-> 0, entry |-> NULL, live |-> {}]

\* initmap(capacity), and the threads before their first call
InitMap ==
  /\ capacity \in 1..MaxCapacity
  /\ table = [i \in 0..(capacity - 1) |-> NULL]
  /\ heap = [a \in Addrs |-> FreeNode]
  /\ entryLocks = [i \in 0..(capacity - 1) |-> NoThread]
  /\ propsLock = NoThread
  /\ numOps = 0
  /\ size = 0
  /\ pc = [t \in Threads |-> "idle"]
  /\ call = [t \in Threads |-> NoCall]
  /\ entry = [t \in Threads |-> NULL]
  /\ prevEntry = [t \in Threads |-> NULL]
  /\ ret = [t \in Threads |-> 0]
  /\ nCalls = 0
  /\ puts = [k \in AllKeys |-> <<>>]
  /\ dels = [k \in AllKeys |-> 0]
  /\ seqmap = [k \in AllKeys |-> INT_MAX]
  /\ expect = [t \in Threads |-> 0]
  /\ prev = [t \in Threads |-> NoCall]
  /\ lastWriter = [k \in AllKeys |-> NoThread]
  /\ fresh = [t \in Threads |-> FALSE]
  /\ lastOp = [k \in AllKeys |-> "none"]
  /\ nIns = 0
  /\ nRetMax = 0
  /\ fm = NoTeardown
  /\ log = <<>>

Init == InitMap /\ env = ConcWorkload

LiveInit == InitMap /\ env = LiveWorkload

SeqInit == InitMap /\ env = SeqWorkload

\* ------------------------------------------------- locks (pthread calls)

\* pthread_mutex_lock(map->entryLocks[i]): blocks until the mutex is free.
MutexLock(t, i) ==
  /\ entryLocks[i] = NoThread
  /\ entryLocks' = [entryLocks EXCEPT ![i] = t]

\* pthread_mutex_unlock(map->entryLocks[i])
MutexUnlock(t, i) == entryLocks' = [entryLocks EXCEPT ![i] = NoThread]

\* pthread_spin_lock(map->propsLock): spins until the lock is free.
SpinLock(t) ==
  /\ propsLock = NoThread
  /\ propsLock' = t

\* pthread_spin_unlock(map->propsLock)
SpinUnlock(t) == propsLock' = NoThread

Goto(t, l) == pc' = [pc EXCEPT ![t] = l]

\* A call returns r: the locals die, the thread is idle again.
Return(t, r) ==
  /\ pc' = [pc EXCEPT ![t] = "idle"]
  /\ ret' = [ret EXCEPT ![t] = r]
  /\ entry' = [entry EXCEPT ![t] = NULL]
  /\ prevEntry' = [prevEntry EXCEPT ![t] = NULL]

\* History: the call of thread t takes effect on the sequential map at the
\* moment t acquires the bucket lock.
TakeEffect(t) ==
  LET k == call[t].key IN
  /\ expect' = [expect EXCEPT ![t] = seqmap[k]]
  /\ fresh' = [fresh EXCEPT ![t] = (lastWriter[k] = t)]
  /\ seqmap' = [seqmap EXCEPT ![k] =
                  CASE call[t].op = "put" -> call[t].value
                    [] call[t].op = "del" -> INT_MAX
                    [] OTHER -> @]
  /\ lastWriter' = [lastWriter EXCEPT ![k] = IF call[t].op = "get" THEN @ ELSE t]
  /\ lastOp' = [lastOp EXCEPT ![k] = IF call[t].op = "get" THEN @ ELSE call[t].op]

\* ---------------------------------------------------------- call starts

StartCall(t, c, l) ==
  /\ pc[t] = "idle"
  /\ fm.pc = "none"
  /\ t \in env.threads
  /\ c.key \in env.keys
  /\ nCalls < env.limit
  /\ nCalls' = nCalls + 1
  /\ prev' = [prev EXCEPT ![t] = call[t]]
  /\ call' = [call EXCEPT ![t] = c]
  /\ pc' = [pc EXCEPT ![t] = l]
  /\ UNCHANGED <<tearVars, mapVars, entry, prevEntry, ret, env, seqmap, expect, lastWriter, fresh,
                 lastOp, nIns, nRetMax>>

CallGet(t, k) ==
  /\ StartCall(t, [op |-> "get", key |-> k, value |-> 0], "g_spin")
  /\ UNCHANGED <<puts, dels>>

CallPut(t, k, v) ==
  /\ StartCall(t, [op |-> "put", key |-> k, value |-> v], "p_lock")
  /\ puts' = [puts EXCEPT ![k] = Append(@, v)]
  /\ UNCHANGED dels

CallDel(t, k) ==
  /\ StartCall(t, [op |-> "del", key |-> k, value |-> 0], "d_spin")
  /\ dels' = [dels EXCEPT ![k] = @ + 1]
  /\ UNCHANGED puts

\* ------------------------------------------------------------------ get

\* line 43
GetSpinLock(t) ==
  /\ pc[t] = "g_spin"
  /\ SpinLock(t)
  /\ Goto(t, "g_inc")
  /\ UNCHANGED <<tearVars, capacity, table, heap, entryLocks, numOps, size,
                 call, entry, prevEntry, ret, histVars>>

\* line 44
GetIncOps(t) ==
  /\ pc[t] = "g_inc"
  /\ numOps' = numOps + 1
  /\ Goto(t, "g_spin_unlock")
  /\ UNCHANGED <<tearVars, capacity, table, heap, entryLocks, propsLock, size,
                 call, entry, prevEntry, ret, histVars>>

\* line 45
GetSpinUnlock(t) ==
  /\ pc[t] = "g_spin_unlock"
  /\ SpinUnlock(t)
  /\ Goto(t, "g_lock")
  /\ UNCHANGED <<tearVars, capacity, table, heap, entryLocks, numOps, size,
                 call, entry, prevEntry, ret, histVars>>

\* Mutant: get walks the chain without taking the bucket lock.
GetLockBucketSkipped(t) ==
  /\ pc[t] = "g_lock"
  /\ TakeEffect(t)
  /\ Goto(t, "g_head")
  /\ UNCHANGED <<tearVars, mapVars, call, entry, prevEntry, ret, env, nCalls, puts, dels, prev,
                 nIns, nRetMax>>

\* Mutant: get locks bucket 0 whatever the key.
GetLockBucketZero(t) ==
  /\ pc[t] = "g_lock"
  /\ MutexLock(t, 0)
  /\ TakeEffect(t)
  /\ Goto(t, "g_head")
  /\ UNCHANGED <<tearVars, capacity, table, heap, propsLock, numOps, size,
                 call, entry, prevEntry, ret, env, nCalls, puts, dels, prev,
                 nIns, nRetMax>>

\* lines 46-47
GetLockBucket(t) ==
  /\ pc[t] = "g_lock"
  /\ MutexLock(t, Index(call[t].key, capacity))
  /\ TakeEffect(t)
  /\ Goto(t, "g_head")
  /\ UNCHANGED <<tearVars, capacity, table, heap, propsLock, numOps, size,
                 call, entry, prevEntry, ret, env, nCalls, puts, dels, prev,
                 nIns, nRetMax>>

\* line 48
GetReadHead(t) ==
  /\ pc[t] = "g_head"
  /\ entry' = [entry EXCEPT ![t] = table[Index(call[t].key, capacity)]]
  /\ Goto(t, "g_loop")
  /\ UNCHANGED <<tearVars, mapVars, call, prevEntry, ret, histVars>>

\* lines 50-59: one test of the loop condition and one pass of the body
GetLoop(t) ==
  /\ pc[t] = "g_loop"
  /\ IF entry[t] = NULL
       THEN Goto(t, "g_miss") /\ UNCHANGED <<entry, ret>>
       ELSE IF heap[entry[t]].key = call[t].key
         THEN /\ ret' = [ret EXCEPT ![t] = heap[entry[t]].value]
              /\ Goto(t, "g_hit")
              /\ UNCHANGED entry
         ELSE /\ entry' = [entry EXCEPT ![t] = heap[entry[t]].next]
              /\ UNCHANGED <<pc, ret>>
  /\ UNCHANGED <<tearVars, mapVars, call, prevEntry, histVars>>

\* Mutant: the match does not return from inside the loop; the call falls
\* through to the final return.
GetUnlockHitFallsThrough(t) ==
  /\ pc[t] = "g_hit"
  /\ MutexUnlock(t, Index(call[t].key, capacity))
  /\ Return(t, INT_MAX)
  /\ UNCHANGED <<tearVars, capacity, table, heap, propsLock, numOps, size, call, histVars>>

\* lines 55-56
GetUnlockHit(t) ==
  /\ pc[t] = "g_hit"
  /\ MutexUnlock(t, Index(call[t].key, capacity))
  /\ Return(t, ret[t])
  /\ UNCHANGED <<tearVars, capacity, table, heap, propsLock, numOps, size, call, histVars>>

\* lines 60-61
GetUnlockMiss(t) ==
  /\ pc[t] = "g_miss"
  /\ MutexUnlock(t, Index(call[t].key, capacity))
  /\ Return(t, INT_MAX)
  /\ UNCHANGED <<tearVars, capacity, table, heap, propsLock, numOps, size, call, histVars>>

\* ------------------------------------------------------------------ put

\* Mutant: the lock does not wait for its holder.
PutLockBucketNoWait(t) ==
  /\ pc[t] = "p_lock"
  /\ entryLocks' = [entryLocks EXCEPT ![Index(call[t].key, capacity)] = t]
  /\ TakeEffect(t)
  /\ Goto(t, "p_head")
  /\ UNCHANGED <<tearVars, capacity, table, heap, propsLock, numOps, size,
                 call, entry, prevEntry, ret, env, nCalls, puts, dels, prev,
                 nIns, nRetMax>>

\* lines 73-74
PutLockBucket(t) ==
  /\ pc[t] = "p_lock"
  /\ MutexLock(t, Index(call[t].key, capacity))
  /\ TakeEffect(t)
  /\ Goto(t, "p_head")
  /\ UNCHANGED <<tearVars, capacity, table, heap, propsLock, numOps, size,
                 call, entry, prevEntry, ret, env, nCalls, puts, dels, prev,
                 nIns, nRetMax>>

\* line 75
PutReadHead(t) ==
  /\ pc[t] = "p_head"
  /\ entry' = [entry EXCEPT ![t] = table[Index(call[t].key, capacity)]]
  /\ Goto(t, "p_loop")
  /\ UNCHANGED <<tearVars, mapVars, call, prevEntry, ret, histVars>>

\* Mutant: on a match the old value is returned but the new one is not stored.
PutLoopNoOverwrite(t) ==
  /\ pc[t] = "p_loop"
  /\ IF entry[t] = NULL
       THEN Goto(t, "p_new") /\ UNCHANGED <<entry, ret>>
       ELSE IF heap[entry[t]].key = call[t].key
         THEN /\ ret' = [ret EXCEPT ![t] = heap[entry[t]].value]
              /\ Goto(t, "p_upd_unlock")
              /\ UNCHANGED entry
         ELSE /\ entry' = [entry EXCEPT ![t] = heap[entry[t]].next]
              /\ UNCHANGED <<pc, ret>>
  /\ UNCHANGED <<tearVars, mapVars, call, prevEntry, histVars>>

\* lines 76-89: one test of the loop condition and one pass of the body; on a
\* match, oldValue is read and the value overwritten in place (lines 80-81)
PutLoop(t) ==
  /\ pc[t] = "p_loop"
  /\ IF entry[t] = NULL
       THEN Goto(t, "p_new") /\ UNCHANGED <<entry, ret, heap>>
       ELSE IF heap[entry[t]].key = call[t].key
         THEN /\ ret' = [ret EXCEPT ![t] = heap[entry[t]].value]
              /\ heap' = [heap EXCEPT ![entry[t]].value = call[t].value]
              /\ Goto(t, "p_upd_unlock")
              /\ UNCHANGED entry
         ELSE /\ entry' = [entry EXCEPT ![t] = heap[entry[t]].next]
              /\ UNCHANGED <<pc, ret, heap>>
  /\ UNCHANGED <<tearVars, capacity, table, entryLocks, propsLock, numOps, size,
                 call, prevEntry, histVars>>

\* Mutant: the bucket lock is kept while the counter is updated.
PutUpdUnlockKept(t) ==
  /\ pc[t] = "p_upd_unlock"
  /\ Goto(t, "p_upd_spin")
  /\ UNCHANGED <<tearVars, mapVars, call, entry, prevEntry, ret, histVars>>

\* line 82
PutUpdUnlock(t) ==
  /\ pc[t] = "p_upd_unlock"
  /\ MutexUnlock(t, Index(call[t].key, capacity))
  /\ Goto(t, "p_upd_spin")
  /\ UNCHANGED <<tearVars, capacity, table, heap, propsLock, numOps, size,
                 call, entry, prevEntry, ret, histVars>>

\* line 83
PutUpdSpinLock(t) ==
  /\ pc[t] = "p_upd_spin"
  /\ SpinLock(t)
  /\ Goto(t, "p_upd_inc")
  /\ UNCHANGED <<tearVars, capacity, table, heap, entryLocks, numOps, size,
                 call, entry, prevEntry, ret, histVars>>

\* Mutant: the overwriting put does not count the operation.
PutUpdNoInc(t) ==
  /\ pc[t] = "p_upd_inc"
  /\ Goto(t, "p_upd_spin_unlock")
  /\ UNCHANGED <<tearVars, mapVars, call, entry, prevEntry, ret, histVars>>

\* line 84
PutUpdIncOps(t) ==
  /\ pc[t] = "p_upd_inc"
  /\ numOps' = numOps + 1
  /\ Goto(t, "p_upd_spin_unlock")
  /\ UNCHANGED <<tearVars, capacity, table, heap, entryLocks, propsLock, size,
                 call, entry, prevEntry, ret, histVars>>

\* lines 85-86
PutUpdSpinUnlock(t) ==
  /\ pc[t] = "p_upd_spin_unlock"
  /\ SpinUnlock(t)
  /\ Return(t, ret[t])
  /\ nRetMax' = IF ret[t] = INT_MAX THEN nRetMax + 1 ELSE nRetMax
  /\ UNCHANGED <<tearVars, capacity, table, heap, entryLocks, numOps, size, call, histRest, nIns>>

\* Mutant: the new entry is not pointed at the current head.
PutNewEntryDropsChain(t) ==
  /\ pc[t] = "p_new"
  /\ \E a \in Addrs : ~heap[a].alloc
  /\ entry' = [entry EXCEPT ![t] = Malloc]
  /\ heap' = [heap EXCEPT ![Malloc] =
                [key |-> call[t].key, value |-> call[t].value,
                 next |-> NULL, alloc |-> TRUE]]
  /\ Goto(t, "p_link")
  /\ UNCHANGED <<tearVars, capacity, table, entryLocks, propsLock, numOps, size,
                 call, prevEntry, ret, histVars>>

\* lines 90-93: allocate the entry, fill it in, point it at the current head
PutNewEntry(t) ==
  /\ pc[t] = "p_new"
  /\ \E a \in Addrs : ~heap[a].alloc
  /\ entry' = [entry EXCEPT ![t] = Malloc]
  /\ heap' = [heap EXCEPT ![Malloc] =
                [key |-> call[t].key, value |-> call[t].value,
                 next |-> table[Index(call[t].key, capacity)], alloc |-> TRUE]]
  /\ Goto(t, "p_link")
  /\ UNCHANGED <<tearVars, capacity, table, entryLocks, propsLock, numOps, size,
                 call, prevEntry, ret, histVars>>

\* Mutant: the new entry becomes the head of bucket 0 whatever the key.
PutLinkBucketZero(t) ==
  /\ pc[t] = "p_link"
  /\ table' = [table EXCEPT ![0] = entry[t]]
  /\ Goto(t, "p_new_unlock")
  /\ nIns' = nIns + 1
  /\ UNCHANGED <<tearVars, capacity, heap, entryLocks, propsLock, numOps, size,
                 call, entry, prevEntry, ret, histRest, nRetMax>>

\* line 94
PutLink(t) ==
  /\ pc[t] = "p_link"
  /\ table' = [table EXCEPT ![Index(call[t].key, capacity)] = entry[t]]
  /\ Goto(t, "p_new_unlock")
  /\ nIns' = nIns + 1
  /\ UNCHANGED <<tearVars, capacity, heap, entryLocks, propsLock, numOps, size,
                 call, entry, prevEntry, ret, histRest, nRetMax>>

\* line 95
PutNewUnlock(t) ==
  /\ pc[t] = "p_new_unlock"
  /\ MutexUnlock(t, Index(call[t].key, capacity))
  /\ Goto(t, "p_new_spin")
  /\ UNCHANGED <<tearVars, capacity, table, heap, propsLock, numOps, size,
                 call, entry, prevEntry, ret, histVars>>

\* line 96
PutNewSpinLock(t) ==
  /\ pc[t] = "p_new_spin"
  /\ SpinLock(t)
  /\ Goto(t, "p_new_inc")
  /\ UNCHANGED <<tearVars, capacity, table, heap, entryLocks, numOps, size,
                 call, entry, prevEntry, ret, histVars>>

\* Mutant: the insertion counts the operation but not the entry.
PutNewIncOpsOnly(t) ==
  /\ pc[t] = "p_new_inc"
  /\ numOps' = numOps + 1
  /\ Goto(t, "p_new_spin_unlock")
  /\ UNCHANGED <<tearVars, capacity, table, heap, entryLocks, propsLock, size,
                 call, entry, prevEntry, ret, histVars>>

\* lines 97-98
PutNewIncOpsSize(t) ==
  /\ pc[t] = "p_new_inc"
  /\ numOps' = numOps + 1
  /\ size' = size + 1
  /\ Goto(t, "p_new_spin_unlock")
  /\ UNCHANGED <<tearVars, capacity, table, heap, entryLocks, propsLock,
                 call, entry, prevEntry, ret, histVars>>

\* lines 99-100
PutNewSpinUnlock(t) ==
  /\ pc[t] = "p_new_spin_unlock"
  /\ SpinUnlock(t)
  /\ Return(t, INT_MAX)
  /\ nRetMax' = nRetMax + 1
  /\ UNCHANGED <<tearVars, capacity, table, heap, entryLocks, numOps, size, call, histRest, nIns>>

\* ------------------------------------------------------------------ del

\* line 111
DelSpinLock(t) ==
  /\ pc[t] = "d_spin"
  /\ SpinLock(t)
  /\ Goto(t, "d_dec")
  /\ UNCHANGED <<tearVars, capacity, table, heap, entryLocks, numOps, size,
                 call, entry, prevEntry, ret, histVars>>

\* Mutant: del counts the operation but leaves size alone.
DelIncOpsOnly(t) ==
  /\ pc[t] = "d_dec"
  /\ numOps' = numOps + 1
  /\ Goto(t, "d_spin_unlock")
  /\ UNCHANGED <<tearVars, capacity, table, heap, entryLocks, propsLock, size,
                 call, entry, prevEntry, ret, histVars>>

\* lines 112-113
DelIncOpsDecSize(t) ==
  /\ pc[t] = "d_dec"
  /\ numOps' = numOps + 1
  /\ size' = size - 1
  /\ Goto(t, "d_spin_unlock")
  /\ UNCHANGED <<tearVars, capacity, table, heap, entryLocks, propsLock,
                 call, entry, prevEntry, ret, histVars>>

\* line 114
DelSpinUnlock(t) ==
  /\ pc[t] = "d_spin_unlock"
  /\ SpinUnlock(t)
  /\ Goto(t, "d_lock")
  /\ UNCHANGED <<tearVars, capacity, table, heap, entryLocks, numOps, size,
                 call, entry, prevEntry, ret, histVars>>

\* lines 115-116
DelLockBucket(t) ==
  /\ pc[t] = "d_lock"
  /\ MutexLock(t, Index(call[t].key, capacity))
  /\ TakeEffect(t)
  /\ Goto(t, "d_head")
  /\ UNCHANGED <<tearVars, capacity, table, heap, propsLock, numOps, size,
                 call, entry, prevEntry, ret, env, nCalls, puts, dels, prev,
                 nIns, nRetMax>>

\* lines 117-118
DelReadHead(t) ==
  /\ pc[t] = "d_head"
  /\ entry' = [entry EXCEPT ![t] = table[Index(call[t].key, capacity)]]
  /\ prevEntry' = [prevEntry EXCEPT ![t] = NULL]
  /\ Goto(t, "d_loop")
  /\ UNCHANGED <<tearVars, mapVars, call, ret, histVars>>

\* Mutant: the key test is inverted, the first entry with another key matches.
DelLoopWrongTest(t) ==
  /\ pc[t] = "d_loop"
  /\ IF entry[t] = NULL
       THEN Goto(t, "d_miss") /\ UNCHANGED <<entry, prevEntry, ret, heap, table>>
       ELSE IF heap[entry[t]].key # call[t].key
         THEN /\ IF prevEntry[t] = NULL
                   THEN /\ table' = [table EXCEPT ![Index(call[t].key, capacity)] =
                                       heap[entry[t]].next]
                        /\ heap' = [heap EXCEPT ![entry[t]] = FreeNode]
                   ELSE /\ heap' = [heap EXCEPT ![prevEntry[t]].next = heap[entry[t]].next,
                                                ![entry[t]] = FreeNode]
                        /\ UNCHANGED table
              /\ ret' = [ret EXCEPT ![t] = heap[entry[t]].value]
              /\ Goto(t, "d_hit")
              /\ UNCHANGED <<entry, prevEntry>>
         ELSE /\ prevEntry' = [prevEntry EXCEPT ![t] = entry[t]]
              /\ entry' = [entry EXCEPT ![t] = heap[entry[t]].next]
              /\ UNCHANGED <<pc, ret, heap, table>>
  /\ UNCHANGED <<tearVars, capacity, entryLocks, propsLock, numOps, size, call, histVars>>

\* Mutant: the match is always unlinked through the head pointer, also when it
\* has a predecessor.
DelLoopHeadFix(t) ==
  /\ pc[t] = "d_loop"
  /\ IF entry[t] = NULL
       THEN Goto(t, "d_miss") /\ UNCHANGED <<entry, prevEntry, ret, heap, table>>
       ELSE IF heap[entry[t]].key = call[t].key
         THEN /\ table' = [table EXCEPT ![Index(call[t].key, capacity)] =
                             heap[entry[t]].next]
              /\ heap' = [heap EXCEPT ![entry[t]] = FreeNode]
              /\ ret' = [ret EXCEPT ![t] = heap[entry[t]].value]
              /\ Goto(t, "d_hit")
              /\ UNCHANGED <<entry, prevEntry>>
         ELSE /\ prevEntry' = [prevEntry EXCEPT ![t] = entry[t]]
              /\ entry' = [entry EXCEPT ![t] = heap[entry[t]].next]
              /\ UNCHANGED <<pc, ret, heap, table>>
  /\ UNCHANGED <<tearVars, capacity, entryLocks, propsLock, numOps, size, call, histVars>>

\* Mutant: on a match the value is returned but the entry stays in the chain.
DelLoopNoUnlink(t) ==
  /\ pc[t] = "d_loop"
  /\ IF entry[t] = NULL
       THEN Goto(t, "d_miss") /\ UNCHANGED <<entry, prevEntry, ret>>
       ELSE IF heap[entry[t]].key = call[t].key
         THEN /\ ret' = [ret EXCEPT ![t] = heap[entry[t]].value]
              /\ Goto(t, "d_hit")
              /\ UNCHANGED <<entry, prevEntry>>
         ELSE /\ prevEntry' = [prevEntry EXCEPT ![t] = entry[t]]
              /\ entry' = [entry EXCEPT ![t] = heap[entry[t]].next]
              /\ UNCHANGED <<pc, ret>>
  /\ UNCHANGED <<tearVars, mapVars, call, histVars>>

\* lines 119-138: one test of the loop condition and one pass of the body; on
\* a match the entry is unlinked, its value read and its storage freed
\* (lines 123-132)
DelLoop(t) ==
  /\ pc[t] = "d_loop"
  /\ IF entry[t] = NULL
       THEN Goto(t, "d_miss") /\ UNCHANGED <<entry, prevEntry, ret, heap, table>>
       ELSE IF heap[entry[t]].key = call[t].key
         THEN /\ IF prevEntry[t] = NULL
                   THEN /\ table' = [table EXCEPT ![Index(call[t].key, capacity)] =
                                       heap[entry[t]].next]
                        /\ heap' = [heap EXCEPT ![entry[t]] = FreeNode]
                   ELSE /\ heap' = [heap EXCEPT ![prevEntry[t]].next = heap[entry[t]].next,
                                                ![entry[t]] = FreeNode]
                        /\ UNCHANGED table
              /\ ret' = [ret EXCEPT ![t] = heap[entry[t]].value]
              /\ Goto(t, "d_hit")
              /\ UNCHANGED <<entry, prevEntry>>
         ELSE /\ prevEntry' = [prevEntry EXCEPT ![t] = entry[t]]
              /\ entry' = [entry EXCEPT ![t] = heap[entry[t]].next]
              /\ UNCHANGED <<pc, ret, heap, table>>
  /\ UNCHANGED <<tearVars, capacity, entryLocks, propsLock, numOps, size, call, histVars>>

\* lines 133-134
DelUnlockHit(t) ==
  /\ pc[t] = "d_hit"
  /\ MutexUnlock(t, Index(call[t].key, capacity))
  /\ Return(t, ret[t])
  /\ UNCHANGED <<tearVars, capacity, table, heap, propsLock, numOps, size, call, histVars>>

\* Mutant: the not-found path returns without releasing the bucket lock.
DelUnlockMissKept(t) ==
  /\ pc[t] = "d_miss"
  /\ Return(t, INT_MAX)
  /\ UNCHANGED <<tearVars, mapVars, call, histVars>>

\* lines 139-140
DelUnlockMiss(t) ==
  /\ pc[t] = "d_miss"
  /\ MutexUnlock(t, Index(call[t].key, capacity))
  /\ Return(t, INT_MAX)
  /\ UNCHANGED <<tearVars, capacity, table, heap, propsLock, numOps, size, call, histVars>>

\* ----------------------------------------------------------- specification

Get(t) ==
  \/ GetSpinLock(t) \/ GetIncOps(t) \/ GetSpinUnlock(t) \/ GetLockBucket(t)
  \/ GetReadHead(t) \/ GetLoop(t) \/ GetUnlockHit(t) \/ GetUnlockMiss(t)

Put(t) ==
  \/ PutLockBucket(t) \/ PutReadHead(t) \/ PutLoop(t)
  \/ PutUpdUnlock(t) \/ PutUpdSpinLock(t) \/ PutUpdIncOps(t) \/ PutUpdSpinUnlock(t)
  \/ PutNewEntry(t) \/ PutLink(t) \/ PutNewUnlock(t)
  \/ PutNewSpinLock(t) \/ PutNewIncOpsSize(t) \/ PutNewSpinUnlock(t)

Del(t) ==
  \/ DelSpinLock(t) \/ DelIncOpsDecSize(t) \/ DelSpinUnlock(t) \/ DelLockBucket(t)
  \/ DelReadHead(t) \/ DelLoop(t) \/ DelUnlockHit(t) \/ DelUnlockMiss(t)

\* The steps that wait for a lock.
Acquire(t) ==
  \/ GetSpinLock(t) \/ GetLockBucket(t)
  \/ PutLockBucket(t) \/ PutUpdSpinLock(t) \/ PutNewSpinLock(t)
  \/ DelSpinLock(t) \/ DelLockBucket(t)

\* A step of a call in flight.
Step(t) == Get(t) \/ Put(t) \/ Del(t)

Start(t) ==
  \/ \E k \in AllKeys : CallGet(t, k)
  \/ \E k \in AllKeys, v \in Values : CallPut(t, k, v)
  \/ \E k \in AllKeys : CallDel(t, k)

Next == \E t \in Threads : Start(t) \/ Step(t)

Spec == Init /\ [][Next]_vars

\* The single-threaded workload.
SeqSpec == SeqInit /\ [][Next]_vars

\* Fair scheduling: a thread that can take a step of its call eventually
\* takes it.  Fair lock acquisition: a thread that is again and again able to
\* acquire the lock it waits for eventually acquires it.
Fairness == \A t \in Threads : WF_vars(Step(t)) /\ SF_vars(Acquire(t))

LiveSpec == LiveInit /\ [][Next]_vars /\ Fairness

\* -------------------------------------------------------------- freeMap

\* A lock after pthread_mutex_destroy / pthread_spin_destroy.
Destroyed == 0 - 1

FmGoto(l) == fm' = [fm EXCEPT !.pc = l]

\* The caller calls freeMap when no operation is in flight (line 167; i = 0
\* of line 169).
FreeMapCall ==
  /\ fm.pc = "none"
  /\ \A t \in Threads : pc[t] = "idle"
  /\ fm' = [pc |-> "f_for", i |-> 0, entry |-> NULL,
            live |-> {a \in Addrs : heap[a].alloc}]
  /\ UNCHANGED <<mapVars, locVars, histVars, log>>

\* lines 169-171: the test of the for loop and the read of the bucket's head
FreeMapFor ==
  /\ fm.pc = "f_for"
  /\ IF fm.i < capacity
       THEN fm' = [fm EXCEPT !.pc = "f_while", !.entry = table[fm.i]]
       ELSE FmGoto("f_table")
  /\ UNCHANGED <<mapVars, locVars, histVars, log>>

\* Mutant: the successor is read from the entry after it has been freed.
FreeMapWhileReadsFreed ==
  /\ fm.pc = "f_while"
  /\ IF fm.entry # NULL
       THEN /\ heap' = [heap EXCEPT ![fm.entry] = FreeNode]
            /\ log' = Append(log, [kind |-> "entry", id |-> fm.entry, bucket |-> fm.i,
                                   ok |-> heap[fm.entry].alloc])
            /\ fm' = [fm EXCEPT !.entry = FreeNode.next]
       ELSE /\ FmGoto("f_lock")
            /\ UNCHANGED <<heap, log>>
  /\ UNCHANGED <<capacity, table, entryLocks, propsLock, numOps, size, locVars, histVars>>

\* lines 172-177: one test of the while loop and one pass of its body
FreeMapWhile ==
  /\ fm.pc = "f_while"
  /\ IF fm.entry # NULL
       THEN /\ heap' = [heap EXCEPT ![fm.entry] = FreeNode]
            /\ log' = Append(log, [kind |-> "entry", id |-> fm.entry, bucket |-> fm.i,
                                   ok |-> heap[fm.entry].alloc])
            /\ fm' = [fm EXCEPT !.entry = heap[fm.entry].next]
       ELSE /\ FmGoto("f_lock")
            /\ UNCHANGED <<heap, log>>
  /\ UNCHANGED <<capacity, table, entryLocks, propsLock, numOps, size, locVars, histVars>>

\* lines 178-179, and the i++ of line 169
FreeMapDestroyLock ==
  /\ fm.pc = "f_lock"
  /\ entryLocks' = [entryLocks EXCEPT ![fm.i] = Destroyed]
  /\ log' = Append(log, [kind |-> "lock", id |-> fm.i, bucket |-> fm.i,
                         ok |-> entryLocks[fm.i] = NoThread])
  /\ fm' = [fm EXCEPT !.pc = "f_for", !.i = @ + 1]
  /\ UNCHANGED <<capacity, table, heap, propsLock, numOps, size, locVars, histVars>>

\* lines 181-182
FreeMapTable ==
  /\ fm.pc = "f_table"
  /\ log' = Append(log, [kind |-> "table", id |-> 0, bucket |-> 0, ok |-> TRUE])
  /\ FmGoto("f_props")
  /\ UNCHANGED <<mapVars, locVars, histVars>>

\* lines 183-184
FreeMapDestroyProps ==
  /\ fm.pc = "f_props"
  /\ propsLock' = Destroyed
  /\ log' = Append(log, [kind |-> "props", id |-> 0, bucket |-> 0,
                         ok |-> propsLock = NoThread])
  /\ FmGoto("f_map")
  /\ UNCHANGED <<capacity, table, heap, entryLocks, numOps, size, locVars, histVars>>

\* line 185
FreeMapMap ==
  /\ fm.pc = "f_map"
  /\ log' = Append(log, [kind |-> "map", id |-> 0, bucket |-> 0, ok |-> TRUE])
  /\ FmGoto("done")
  /\ UNCHANGED <<mapVars, locVars, histVars>>

FreeMap ==
  \/ FreeMapCall \/ FreeMapFor \/ FreeMapWhile \/ FreeMapDestroyLock
  \/ FreeMapTable \/ FreeMapDestroyProps \/ FreeMapMap

TeardownNext == Next \/ FreeMap

\* The single-threaded workload, ended by freeMap.
TeardownSpec == SeqInit /\ [][TeardownNext]_vars

\* ------------------------------------------------- allocation failure

\* line 90 when malloc returns NULL: put goes on to line 91 with entry = NULL.
PutAllocFails(t) ==
  /\ pc[t] = "p_new"
  /\ entry' = [entry EXCEPT ![t] = NULL]
  /\ Goto(t, "p_null")
  /\ UNCHANGED <<mapVars, call, prevEntry, ret, histVars, tearVars>>

\* lines 91-93 with entry = NULL: the stores through the null pointer are
\* undefined behaviour.  Either the process is killed at the first store,
\* with the bucket lock still held, or the stores land and put goes on to
\* line 94 with its null entry.
PutNullStore(t) ==
  /\ pc[t] = "p_null"
  /\ \/ pc' = [u \in Threads |-> "killed"]
     \/ Goto(t, "p_link")
  /\ UNCHANGED <<mapVars, call, entry, prevEntry, ret, histVars, tearVars>>

Killed == \E t \in Threads : pc[t] = "killed"

OomNext ==
  \/ ~Killed /\ Next
  \/ \E t \in Threads : PutAllocFails(t) \/ PutNullStore(t)

\* The concurrent workload with a malloc that can fail.
OomSpec == LiveInit /\ [][OomNext]_vars

\* ------------------------------------------------------------ observers

Buckets == 0..(capacity - 1)

\* The chain of bucket i from head to tail, as printmap walks it (at most
\* n nodes).
RECURSIVE ChainFrom(_, _)
ChainFrom(a, n) ==
  IF a = NULL \/ n = 0 THEN <<>>
  ELSE <<a>> \o ChainFrom(heap[a].next, n - 1)

Chain(i) == ChainFrom(table[i], Cardinality(Addrs) + 1)

ChainKeys(i) == [j \in 1..Len(Chain(i)) |-> heap[Chain(i)[j]].key]

\* What get(k) finds in the present chains: the value of the first entry
\* with key k, or INT_MAX.
RECURSIVE Find(_, _, _)
Find(a, k, n) ==
  IF a = NULL \/ n = 0 THEN INT_MAX
  ELSE IF heap[a].key = k THEN heap[a].value
  ELSE Find(heap[a].next, k, n - 1)

Lookup(k) == Find(table[Index(k, capacity)], k, Cardinality(Addrs) + 1)

RECURSIVE SumLen(_)
SumLen(i) == IF i < 0 THEN 0 ELSE Len(Chain(i)) + SumLen(i - 1)

\* The number of entries over all bucket chains.
TotalEntries == SumLen(capacity - 1)

\* The number of entries with key k over all bucket chains.
EntriesWithKey(k) ==
  Cardinality({<<i, j>> \in Buckets \X (1..(Cardinality(Addrs) + 1)) :
                 j <= Len(Chain(i)) /\ heap[Chain(i)[j]].key = k})

Range(f) == {f[x] : x \in DOMAIN f}

InFlight(t) == pc[t] # "idle"

Quiescent == \A t \in Threads : ~InFlight(t)

\* Positions at which a thread reads, writes or frees its bucket's head or
\* entries, or unlocks the bucket.
BucketSection ==
  {"g_head", "g_loop", "g_hit", "g_miss",
   "p_head", "p_loop", "p_upd_unlock", "p_new", "p_link", "p_new_unlock",
   "d_head", "d_loop", "d_hit", "d_miss"}

\* Positions at which a thread reads or writes numOps or size, or unlocks
\* the properties lock.
PropsSection ==
  {"g_inc", "g_spin_unlock", "p_upd_inc", "p_upd_spin_unlock",
   "p_new_inc", "p_new_spin_unlock", "d_dec", "d_spin_unlock"}

\* Positions of a put after it has released the bucket lock.
PutAfterBucket ==
  {"p_upd_spin", "p_upd_inc", "p_upd_spin_unlock",
   "p_new_spin", "p_new_inc", "p_new_spin_unlock"}

MyBucket(t) == Index(call[t].key, capacity)

\* --------------------------------------------------------------- claims

\* Every put(k, _) started has finished its bucket critical section.
PutsSettled(k) ==
  /\ Len(puts[k]) > 0
  /\ \A t \in Threads :
       (InFlight(t) /\ call[t].op = "put" /\ call[t].key = k) => pc[t] \in PutAfterBucket

\* C1: when puts on distinct keys of one bucket run concurrently and no del
\* of those keys is called, then once the puts are through their bucket
\* critical section (in particular once they have returned) each key is in
\* the chain with a value that was put for it: no insertion is lost.
C1_ConcurrentPutsKept ==
  \A k \in AllKeys :
    (PutsSettled(k) /\ dels[k] = 0) => Lookup(k) \in Range(puts[k])

\* Two puts on distinct keys of the same bucket are in flight together, both
\* have inserted, and both keys are found.
C1_Witness ==
  /\ InFlight(1) /\ InFlight(2)
  /\ call[1].op = "put" /\ call[2].op = "put"
  /\ call[1].key # call[2].key
  /\ MyBucket(1) = MyBucket(2)
  /\ pc[1] = "p_new_spin_unlock" /\ pc[2] = "p_new_spin"
  /\ nCalls = 2
  /\ Lookup(call[1].key) = call[1].value
  /\ Lookup(call[2].key) = call[2].value
  /\ Len(Chain(MyBucket(1))) = 2

\* C2: no bucket chain holds two entries with the same key.
C2_UniqueKeys ==
  \A i \in Buckets :
    \A j1, j2 \in 1..Len(Chain(i)) :
      ChainKeys(i)[j1] = ChainKeys(i)[j2] => j1 = j2

\* Two puts on the same key ran concurrently: one inserted, the other found
\* the entry and overwrote it.
C2_Witness ==
  /\ call[1].op = "put" /\ call[2].op = "put"
  /\ call[1].key = call[2].key
  /\ pc[1] = "p_new_spin" /\ pc[2] = "p_upd_unlock"
  /\ EntriesWithKey(call[1].key) = 1

\* C3: from an empty map, once N puts on N pairwise distinct keys have all
\* returned, with no del called, size is N and the chains hold exactly N
\* entries, one per key.
C3_SizeAfterDistinctPuts ==
  LET PutKeys == {k \in AllKeys : Len(puts[k]) > 0}
      N == Cardinality(PutKeys)
  IN (/\ Quiescent
      /\ \A k \in AllKeys : Len(puts[k]) <= 1 /\ dels[k] = 0)
     => /\ size = N
        /\ TotalEntries = N
        /\ \A k \in PutKeys : EntriesWithKey(k) = 1 /\ Lookup(k) = puts[k][1]

\* Two threads have each put one key, the keys differ, and all calls returned.
C3_Witness ==
  /\ Quiescent
  /\ \A k \in AllKeys : Len(puts[k]) <= 1 /\ dels[k] = 0
  /\ call[1].op = "put" /\ call[2].op = "put"
  /\ call[1].key # call[2].key
  /\ size = 2

\* C4: whenever no put or del is in flight, size is the number of entries
\* over all chains.
C4_SizeIsEntryCount ==
  (\A t \in Threads : InFlight(t) => call[t].op = "get") => size = TotalEntries

\* C5: a thread that is about to access a bucket holds that bucket's lock, a
\* thread that is about to access the counters holds the properties lock, no
\* two threads are in the critical section of one lock together, and the
\* entries a thread is about to dereference are allocated entries.
C5_LockDiscipline ==
  /\ \A t \in Threads :
       /\ pc[t] \in BucketSection => entryLocks[MyBucket(t)] = t
       /\ pc[t] \in PropsSection => propsLock = t
       /\ pc[t] \in {"g_loop", "p_loop", "d_loop"} =>
            entry[t] = NULL \/ heap[entry[t]].alloc
       /\ pc[t] = "d_loop" => prevEntry[t] = NULL \/ heap[prevEntry[t]].alloc
       /\ pc[t] = "p_link" => heap[entry[t]].alloc
  /\ \A t1, t2 \in Threads :
       t1 # t2 =>
         /\ ~(pc[t1] \in PropsSection /\ pc[t2] \in PropsSection)
         /\ ~(/\ pc[t1] \in BucketSection /\ pc[t2] \in BucketSection
              /\ MyBucket(t1) = MyBucket(t2))

\* A del has freed an entry and still holds the bucket lock while the other
\* thread waits for that lock.
C5_Witness ==
  /\ pc[1] = "d_hit"
  /\ entry[1] # NULL /\ ~heap[entry[1]].alloc
  /\ pc[2] \in {"g_lock", "p_lock", "d_lock"}
  /\ MyBucket(2) = MyBucket(1)

\* C6: no thread holds a bucket lock together with the properties lock, and
\* no thread holds two bucket locks.
C6_NoNestedLocks ==
  \A t \in Threads :
    /\ ~(propsLock = t /\ \E i \in Buckets : entryLocks[i] = t)
    /\ Cardinality({i \in Buckets : entryLocks[i] = t}) <= 1

\* A put is in its counter section, after its bucket section, while the other
\* thread holds the lock of that bucket.
C6_Witness ==
  /\ pc[1] = "p_new_inc" /\ propsLock = 1
  /\ entryLocks[MyBucket(1)] = 2

HoldsNoLock(t) == propsLock # t /\ \A i \in Buckets : entryLocks[i] # t

\* C7: under fair scheduling and fair lock acquisition every call that is
\* started returns, and a thread that has returned holds no lock.
C7_CallsReturn ==
  /\ \A t \in Threads : InFlight(t) ~> ~InFlight(t)
  /\ [](\A t \in Threads : ~InFlight(t) => HoldsNoLock(t))

\* A thread waits for the bucket lock that the other thread holds inside its
\* bucket section.
C7_Witness ==
  /\ pc[1] \in {"g_lock", "p_lock", "d_lock"}
  /\ entryLocks[MyBucket(1)] = 2
  /\ pc[2] \in BucketSection

\* C8: every call returns what the sequential map returns when the calls take
\* effect in the order in which they acquired the bucket lock.
C8_SequentialReturns ==
  \A t \in Threads :
    (~InFlight(t) /\ call[t].op # "none") => ret[t] = expect[t]

\* A put and a del of the same key by different threads have returned, the
\* del after the put took effect: put returned INT_MAX, del the value put.
C8_Witness ==
  /\ Quiescent
  /\ call[1].op = "put" /\ call[2].op = "del"
  /\ call[1].key = call[2].key
  /\ call[1].value = 100
  /\ ret[1] = INT_MAX /\ ret[2] = 100
  /\ prev[1].op = "none"

\* Thread t has returned from get(k) and its call before that was put(k, v).
PutThenGet(t) ==
  /\ ~InFlight(t)
  /\ call[t].op = "get" /\ prev[t].op = "put"
  /\ call[t].key = prev[t].key

\* C9 as stated: put(k, v) immediately followed by get(k) on the same thread
\* returns v.
C9_PutThenGetReturnsValue ==
  \A t \in Threads : PutThenGet(t) => ret[t] = prev[t].value

\* C9 amended: put(k, v) immediately followed by get(k) on the same thread
\* returns v, provided no put(k, _) or del(k) of another thread took effect
\* between the put and the get.
C9_PutThenGetUndisturbed ==
  \A t \in Threads : (PutThenGet(t) /\ fresh[t]) => ret[t] = prev[t].value

\* Thread 1 has put and then got the key and received the value, after the
\* other thread's call on the same key.
C9_Witness ==
  /\ PutThenGet(1) /\ fresh[1]
  /\ ret[1] = prev[1].value /\ ret[1] = 100
  /\ ~InFlight(2) /\ call[2].op \in {"put", "del"} /\ call[2].key = call[1].key

\* Thread t runs put(k, v2), its call before that was put(k, v1), and no put
\* or del of k by another thread has taken effect since.
SecondPut(t) ==
  /\ InFlight(t)
  /\ call[t].op = "put" /\ prev[t].op = "put"
  /\ call[t].key = prev[t].key
  /\ IF pc[t] = "p_lock" THEN lastWriter[call[t].key] = t ELSE fresh[t]

Moves(t) == pc'[t] # pc[t] \/ entry'[t] # entry[t]

\* C10: put(k, v1) followed by put(k, v2) with nothing else on k in between:
\* no step of the second put changes size or the chains' entries, it
\* returns v1, and when it has overwritten the value get(k) finds v2.
C10_SecondPutOverwrites ==
  [][\A t \in Threads :
       (SecondPut(t) /\ Moves(t)) =>
         /\ size' = size
         /\ \A i \in Buckets : Chain(i)' = Chain(i)
         /\ pc[t] = "p_loop" /\ pc'[t] = "p_upd_unlock" =>
              Lookup(call[t].key)' = call[t].value
         /\ pc'[t] # "p_new"
         /\ pc'[t] = "idle" => ret'[t] = prev[t].value]_vars

\* Thread 1 has put the key twice with different values; the second put
\* returned the first value, the entry holds the second, size is still 1.
C10_Witness ==
  /\ ~InFlight(1) /\ fresh[1]
  /\ call[1].op = "put" /\ prev[1].op = "put"
  /\ call[1].key = prev[1].key
  /\ call[1].value # prev[1].value
  /\ ret[1] = prev[1].value
  /\ Lookup(call[1].key) = call[1].value
  /\ size = 1 /\ TotalEntries = 1

\* Positions of a get inside its bucket section.
GetBucketSection == {"g_head", "g_loop", "g_hit", "g_miss"}

\* Thread t runs get(k) inside its bucket section, and the last put or del
\* that took effect on k is a del.
GetAfterDel(t) ==
  /\ call[t].op = "get"
  /\ pc[t] \in GetBucketSection
  /\ lastOp[call[t].key] = "del"

\* C11: a get(k) that takes effect after a del(k), with no put(k, _) taking
\* effect in between, finds no entry with key k and returns INT_MAX.
C11_GetAfterDelMisses ==
  /\ [](\A t \in Threads :
          GetAfterDel(t) => pc[t] # "g_hit" /\ EntriesWithKey(call[t].key) = 0)
  /\ [][\A t \in Threads :
          (GetAfterDel(t) /\ pc'[t] = "idle") => ret'[t] = INT_MAX]_vars

\* A key was put and then deleted, and the get that followed has returned
\* INT_MAX.
C11_Witness ==
  /\ Quiescent
  /\ call[1].op = "get" /\ ret[1] = INT_MAX
  /\ lastOp[call[1].key] = "del"
  /\ puts[call[1].key] = <<100>>
  /\ dels[call[1].key] = 1
  /\ call[2].op = "del" /\ ret[2] = 100

\* Thread t runs del(k) inside its bucket section, before any match, and no
\* chain holds an entry with key k.
DelOfAbsent(t) ==
  /\ call[t].op = "del"
  /\ pc[t] \in {"d_head", "d_loop", "d_miss"}
  /\ EntriesWithKey(call[t].key) = 0

\* C12: del(k) on a key that is in no chain creates, removes and modifies no
\* entry, and returns INT_MAX.
C12_DelOfAbsentKey ==
  [][\A t \in Threads :
       (DelOfAbsent(t) /\ Moves(t)) =>
         /\ table' = table
         /\ heap' = heap
         /\ pc'[t] # "d_hit"
         /\ pc'[t] = "idle" => ret'[t] = INT_MAX]_vars

\* A del of an absent key has walked a chain that holds another key and has
\* returned INT_MAX; the chain still holds that entry.
C12_Witness ==
  /\ ~InFlight(1)
  /\ call[1].op = "del" /\ ret[1] = INT_MAX
  /\ puts[call[1].key] = <<>>
  /\ Len(Chain(MyBucket(1))) = 1
  /\ TotalEntries = 1

\* Positions of a call that has not yet incremented numOps.
BeforeInc ==
  {"g_spin", "g_inc",
   "p_lock", "p_head", "p_loop", "p_upd_unlock", "p_upd_spin", "p_upd_inc",
   "p_new", "p_link", "p_new_unlock", "p_new_spin", "p_new_inc",
   "d_spin", "d_dec"}

\* C13: numOps is the number of calls started minus the calls in flight that
\* have not yet made their one increment; with no call in flight it is the
\* number of calls that have returned.
C13_NumOpsCountsCalls ==
  /\ numOps = nCalls - Cardinality({t \in Threads : pc[t] \in BeforeInc})
  /\ Quiescent => numOps = nCalls

\* Three calls, a get, a put and a del, made by two threads, have returned.
C13_Witness ==
  /\ Quiescent
  /\ {call[1].op, prev[1].op, call[2].op} = {"get", "put", "del"}
  /\ numOps = 3

\* Thread t runs get and cannot take its next step.
GetBlocked(t) ==
  /\ call[t].op = "get" /\ InFlight(t)
  /\ ~ENABLED Get(t)

\* Thread t waits for the lock of its bucket, held by a thread that runs an
\* operation on a key of the same bucket.
WaitsForOwnBucket(t) ==
  /\ pc[t] = "g_lock"
  /\ \E u \in Threads \ {t} :
       /\ entryLocks[MyBucket(t)] = u
       /\ pc[u] \in BucketSection
       /\ MyBucket(u) = MyBucket(t)

\* Thread t waits for the properties lock, held by a thread in its counter
\* update.
WaitsForProps(t) ==
  /\ pc[t] = "g_spin"
  /\ \E u \in Threads \ {t} : propsLock = u /\ pc[u] \in PropsSection

\* C14 as stated: a get waits for no lock other than the lock of its key's
\* bucket.
C14_GetWaitsOnlyForBucket ==
  \A t \in Threads : GetBlocked(t) => WaitsForOwnBucket(t)

\* C14 amended: a get waits only for the properties lock, while another
\* thread updates the counters, and for the lock of its key's bucket, while
\* another thread works on that bucket; never for the lock of another bucket.
C14_GetWaitsForPropsOrBucket ==
  \A t \in Threads : GetBlocked(t) => (WaitsForProps(t) \/ WaitsForOwnBucket(t))

\* A get is about to lock its bucket and can do so, while the other thread
\* holds the lock of another bucket.
C14_Witness ==
  /\ pc[1] = "g_lock"
  /\ ENABLED Get(1)
  /\ \E i \in Buckets : i # MyBucket(1) /\ entryLocks[i] = 2 /\ pc[2] \in BucketSection

RECURSIVE SumDels(_)
SumDels(S) ==
  IF S = {} THEN 0
  ELSE LET k == CHOOSE x \in S : TRUE IN dels[k] + SumDels(S \ {k})

\* The number of del calls started.
NumDels == SumDels(AllKeys)

\* C17 as stated: once all calls have returned, size is the number of put
\* calls that returned INT_MAX minus the number of del calls.
C17_SizeIsRetMaxMinusDels == Quiescent => size = nRetMax - NumDels

\* C17 amended: every del decrements size once, before it acquires the
\* bucket lock and whether or not the key is present, and every put that
\* links a new entry increments it once: size is the number of entries linked
\* minus the number of del calls, up to the calls that are in flight before
\* their counter update.
C17_SizeIsInsertionsMinusDels ==
  size = (nIns - Cardinality({t \in Threads :
                                pc[t] \in {"p_new_unlock", "p_new_spin", "p_new_inc"}}))
         - (NumDels - Cardinality({t \in Threads : pc[t] \in {"d_spin", "d_dec"}}))

\* All calls have returned, one entry is in the map, and two dels of an
\* absent key have left size negative.
C17_Witness ==
  /\ Quiescent
  /\ TotalEntries = 1
  /\ nIns = 1 /\ NumDels = 2
  /\ size = -1

\* The sequence q without its element at position p.
Without(q, p) == SubSeq(q, 1, p - 1) \o SubSeq(q, p + 1, Len(q))

\* C18: del(k) on a key that is present never takes the not-found path; the
\* step that finds the entry removes exactly that entry from its chain,
\* whatever its position, keeps the other entries of the chain in their order
\* with their keys and values, leaves the other buckets alone, and the call
\* returns the removed entry's value.
C18_DelRemovesOneEntry ==
  [][\A t \in Threads :
       (call[t].op = "del" /\ Moves(t)) =>
         LET i == MyBucket(t)
             old == Chain(i)
             k == call[t].key
         IN /\ (pc[t] = "d_loop" /\ EntriesWithKey(k) > 0) =>
                 /\ pc'[t] # "d_miss"
                 /\ pc'[t] = "d_loop" => table' = table /\ heap' = heap
                 /\ pc'[t] = "d_hit" =>
                      \E p \in 1..Len(old) :
                        /\ heap[old[p]].key = k
                        /\ Chain(i)' = Without(old, p)
                        /\ ret'[t] = heap[old[p]].value
                        /\ ~heap'[old[p]].alloc
                        /\ \A q \in (1..Len(old)) \ {p} :
                             /\ heap'[old[q]].key = heap[old[q]].key
                             /\ heap'[old[q]].value = heap[old[q]].value
                        /\ \A j \in Buckets \ {i} :
                             /\ Chain(j)' = Chain(j)
                             /\ \A q \in 1..Len(Chain(j)) :
                                  heap'[Chain(j)[q]] = heap[Chain(j)[q]]
            /\ (pc[t] = "d_hit" /\ pc'[t] = "idle") => ret'[t] = ret[t]]_vars

\* A del has just removed the middle entry of a chain of three and still
\* holds the bucket lock: its predecessor now points at its successor.
C18_Witness ==
  /\ pc[1] = "d_hit"
  /\ prevEntry[1] # NULL
  /\ heap[prevEntry[1]].next # NULL
  /\ Chain(MyBucket(1)) = <<prevEntry[1], heap[prevEntry[1]].next>>
  /\ ~heap[entry[1]].alloc

\* The positions at which address a occurs in the chains.
Places(a) ==
  UNION {LET c == Chain(i) IN {<<i, j>> : j \in {p \in DOMAIN c : c[p] = a}} :
         i \in Buckets}

\* C19: the bucket index of every call lies in 0..capacity-1, also for a
\* negative key; every call works under the lock of that bucket; every entry
\* of chain i has a key of index i; every allocated entry is at exactly one
\* place of one chain (a new entry not yet linked at none); and capacity
\* never changes.
C19_OneChainAtIndexOfKey ==
  /\ [](/\ capacity >= 1
        /\ DOMAIN table = Buckets
        /\ \A t \in Threads : InFlight(t) => MyBucket(t) \in Buckets
        /\ \A t \in Threads : pc[t] \in BucketSection => entryLocks[MyBucket(t)] = t
        /\ \A i \in Buckets :
             LET c == Chain(i) IN
               \A j \in DOMAIN c :
                 /\ heap[c[j]].alloc
                 /\ Index(heap[c[j]].key, capacity) = i
        /\ \A a \in Addrs :
             IF heap[a].alloc /\ ~(\E t \in Threads : pc[t] = "p_link" /\ entry[t] = a)
               THEN Cardinality(Places(a)) = 1
               ELSE Cardinality(Places(a)) = 0)
  /\ [][capacity' = capacity]_vars

\* At capacity 2 the entry with the negative key -1 is in bucket 1 and the
\* entry with key 2 in bucket 0.
C19_Witness ==
  /\ capacity = 2
  /\ Len(Chain(0)) = 1 /\ heap[Chain(0)[1]].key = 2
  /\ Len(Chain(1)) = 1 /\ heap[Chain(1)[1]].key = -1

\* C20: a put on a key that is in no chain takes the insertion path; the new
\* entry is filled in without touching any chain, and linking it makes the
\* chain the new entry (k, v) followed by the previous chain, with every
\* other entry and bucket unchanged.
C20_PutLinksAtHead ==
  [][\A t \in Threads :
       (call[t].op = "put" /\ Moves(t)) =>
         LET i == MyBucket(t)
             old == Chain(i)
             k == call[t].key
         IN /\ (pc[t] = "p_loop" /\ EntriesWithKey(k) = 0) => pc'[t] \in {"p_loop", "p_new"}
            /\ pc'[t] = "p_new" => EntriesWithKey(k) = 0
            /\ pc[t] = "p_new" =>
                 /\ \A j \in Buckets : Chain(j)' = Chain(j)
                 /\ ~heap[entry'[t]].alloc
                 /\ heap'[entry'[t]] =
                      [key |-> k, value |-> call[t].value, next |-> table[i], alloc |-> TRUE]
            /\ pc[t] = "p_link" =>
                 /\ Chain(i)' = <<entry[t]>> \o old
                 /\ heap'[entry[t]].key = k
                 /\ heap'[entry[t]].value = call[t].value
                 /\ \A q \in 1..Len(old) : heap'[old[q]] = heap[old[q]]
                 /\ \A j \in Buckets \ {i} :
                      /\ Chain(j)' = Chain(j)
                      /\ \A q \in 1..Len(Chain(j)) :
                           heap'[Chain(j)[q]] = heap[Chain(j)[q]]]_vars

\* A put has just linked the third entry of a chain at its head.
C20_Witness ==
  /\ pc[1] = "p_new_unlock"
  /\ Len(Chain(MyBucket(1))) = 3
  /\ Chain(MyBucket(1))[1] = entry[1]
  /\ heap[entry[1]].key = call[1].key
  /\ heap[entry[1]].value = call[1].value

\* The positions of the log at which an event of kind k stands.
At(k) == {p \in 1..Len(log) : log[p].kind = k}

\* Every entry released so far was allocated when freeMap was called, was
\* still allocated when released, and has been released once.
ReleasedOnce ==
  /\ \A p \in At("entry") : log[p].ok /\ log[p].id \in fm.live
  /\ \A p, q \in At("entry") : log[p].id = log[q].id => p = q

\* When freeMap has returned, every entry that was allocated at its call has
\* been released and none is left allocated.
NoLeak ==
  fm.pc = "done" =>
    /\ {log[p].id : p \in At("entry")} = fm.live
    /\ Cardinality(At("entry")) = Cardinality(fm.live)
    /\ \A a \in Addrs : ~heap[a].alloc

\* C15 as stated: freeMap releases each entry exactly once, and releases all
\* entries before it destroys any bucket lock, and destroys all bucket locks
\* before the properties lock.
C15_TeardownInPhases ==
  /\ ReleasedOnce
  /\ NoLeak
  /\ \A p \in At("entry"), q \in At("lock") : p < q
  /\ \A q \in At("lock"), r \in At("props") : q < r

\* C15 amended: freeMap releases each entry exactly once; bucket by bucket it
\* releases the bucket's entries and then destroys that bucket's lock, which
\* nobody holds; the properties lock is destroyed after all entries are
\* released and all bucket locks destroyed, and the map is released last.
C15_TeardownPerBucket ==
  /\ ReleasedOnce
  /\ NoLeak
  /\ \A p \in At("entry"), q \in At("lock") : log[p].bucket = log[q].bucket => p < q
  /\ \A q \in At("lock") : log[q].ok
  /\ \A p \in At("entry") \cup At("lock"), r \in At("props") : p < r /\ log[r].ok
  /\ \A r \in At("props") :
       /\ Cardinality(At("lock")) = capacity
       /\ {log[p].id : p \in At("entry")} = fm.live
  /\ \A r \in At("props"), m \in At("map") : r < m

\* freeMap has returned after releasing the three entries of bucket 1 of a
\* map of capacity 2.
C15_Witness ==
  /\ fm.pc = "done"
  /\ capacity = 2
  /\ Cardinality(fm.live) = 3
  /\ Cardinality(At("entry")) = 3
  /\ \A p \in At("entry") : log[p].bucket = 1

\* C16: a put whose allocation has failed does not go on to store through the
\* null result and the process is not killed by such a store; no put links a
\* null entry.
C16_AllocFailureHandled ==
  \A t \in Threads :
    /\ pc[t] \notin {"p_null", "killed"}
    /\ pc[t] = "p_link" => entry[t] # NULL

====
